---- MODULE Spec2Model ----
(***************************************************************************)
(* PCRM2000: the Name Resolver (find_contacts_by_name / choose_contact)    *)
(* and the Contact Activity Tracker (_update_last_contacted), with the     *)
(* commands of the menu that call them, over the SQLite store.             *)
(*                                                                         *)
(* Strings are sequences of one-character strings.  "E/" and "e/" stand    *)
(* for the non-ASCII letters U+00C9 (E acute) and U+00E9 (e acute).        *)
(***************************************************************************)
EXTENDS Integers, Sequences, FiniteSets, TLC

\* SQL's NULL in a text column (last_name): no string, and no character.
Null == <<"NULL">>
\* Python's None where the code holds a contact id (ids start at 1).
NoId == 0
\* SQL's NULL in last_contacted_at: never contacted.
Never == -1

(***************************************************************************)
(* Bounds of the model.                                                    *)
(***************************************************************************)
\* Contacts ever added in a run of Spec (values of the AUTOINCREMENT counter).
MaxContacts == 2
\* Contacts ever added in a run of SpecResolve.
MaxCandidates == 3
\* Rows of the dependent tables (notes, reminders, ...) written in a run of Spec.
MaxRows == 1
\* Notes and reminders written in a run of SpecClock.
MaxNotes == 2
\* Readings of the wall clock: 0..MaxTime.
MaxTime == 1
\* The counter of input() reads of one resolution saturates here.
MaxReads == 2
\* Rows of the stores SpecFind starts from.
MaxFindRows == 2
\* Notes, reminders and tag associations written in SpecTrack.
MaxTrackRows == 2
\* Calls of _update_last_contacted for one contact in SpecMark.
MaxMarks == 2
\* Reminders written in SpecDash.
MaxReminders == 2
\* Ids given in SpecIdentity.
MaxIds == 3
\* Rows of relationships in SpecRelate.
MaxRelations == 3
\* Contacts added in SpecTags.
MaxTagged == 2

(***************************************************************************)
(* Characters and the two lower-casing functions of the code.              *)
(***************************************************************************)
AsciiPairs ==
    { <<"J", "j">>, <<"A", "a">>, <<"N", "n">>, <<"E", "e">>, <<"D", "d">>,
      <<"O", "o">>, <<"S", "s">>, <<"M", "m">>, <<"L", "l">>, <<"Q", "q">>,
      <<"B", "b">>, <<"C", "c">> }

\* U+00C9 / U+00E9
NonAsciiPairs == { <<"E/", "e/">> }

Whitespace == { " " }

\* str.lower() of Python on one character: Unicode aware.
PyLowerChar(c) ==
    IF \E p \in AsciiPairs \cup NonAsciiPairs : p[1] = c
    THEN (CHOOSE p \in AsciiPairs \cup NonAsciiPairs : p[1] = c)[2]
    ELSE c

\* str.lower()
PyLower(s) == [i \in 1..Len(s) |-> PyLowerChar(s[i])]

\* LOWER() of SQLite on one character: the built-in folds ASCII letters only.
SqlLowerChar(c) ==
    IF \E p \in AsciiPairs : p[1] = c
    THEN (CHOOSE p \in AsciiPairs : p[1] = c)[2]
    ELSE c

\* LOWER(column): NULL for a NULL column.
SqlLower(x) ==
    IF x = Null THEN Null ELSE [i \in 1..Len(x) |-> SqlLowerChar(x[i])]

\* SQL's "a = b" in a WHERE clause: a comparison with NULL selects no row.
SqlEq(a, b) == a # Null /\ b # Null /\ a = b

(***************************************************************************)
(* str.split() with no argument: the maximal runs of non-whitespace.       *)
(***************************************************************************)
RECURSIVE SplitFrom(_, _, _, _)
SplitFrom(s, i, cur, acc) ==
    IF i > Len(s)
    THEN IF cur = <<>> THEN acc ELSE Append(acc, cur)
    ELSE IF s[i] \in Whitespace
         THEN SplitFrom(s, i + 1, <<>>, IF cur = <<>> THEN acc ELSE Append(acc, cur))
         ELSE SplitFrom(s, i + 1, Append(cur, s[i]), acc)

\* full_name.strip().split(): strip() changes nothing split() would keep.
PySplit(s) == SplitFrom(s, 1, <<>>, <<>>)

\* ' '.join(parts)
RECURSIVE PyJoin(_)
PyJoin(parts) ==
    IF parts = <<>> THEN <<>>
    ELSE IF Len(parts) = 1 THEN parts[1]
    ELSE parts[1] \o <<" ">> \o PyJoin(Tail(parts))

\* str.strip()
RECURSIVE LStrip(_)
LStrip(s) ==
    IF s # <<>> /\ s[1] \in Whitespace THEN LStrip(Tail(s)) ELSE s

RECURSIVE RStrip(_)
RStrip(s) ==
    IF s # <<>> /\ s[Len(s)] \in Whitespace
    THEN RStrip(SubSeq(s, 1, Len(s) - 1)) ELSE s

PyStrip(s) == LStrip(RStrip(s))

(***************************************************************************)
(* int(choice) of Python on the texts a user types at the prompt: optional *)
(* surrounding whitespace, an optional sign, then decimal digits.          *)
(***************************************************************************)
Digits == { "0", "1", "2", "3", "5" }

DigitVal(c) ==
    CASE c = "0" -> 0 [] c = "1" -> 1 [] c = "2" -> 2 [] c = "3" -> 3
      [] c = "5" -> 5 [] OTHER -> 0

RECURSIVE DigitsVal(_, _)
DigitsVal(s, acc) ==
    IF s = <<>> THEN acc ELSE DigitsVal(Tail(s), 10 * acc + DigitVal(s[1]))

AllDigits(s) == s # <<>> /\ \A i \in 1..Len(s) : s[i] \in Digits

\* [ok |-> FALSE] is ValueError.
PyInt(text) ==
    LET t    == PyStrip(text)
        sign == IF t # <<>> /\ t[1] \in { "-", "+" } THEN t[1] ELSE ""
        body == IF sign = "" THEN t ELSE Tail(t)
    IN  IF AllDigits(body)
        THEN [ok |-> TRUE,
              val |-> IF sign = "-" THEN 0 - DigitsVal(body, 0) ELSE DigitsVal(body, 0)]
        ELSE [ok |-> FALSE, val |-> 0]

(***************************************************************************)
(* The names and texts the runs draw from.                                 *)
(***************************************************************************)
Jane   == << "J", "a", "n", "e" >>
Doe    == << "D", "o", "e" >>
Smith  == << "S", "m", "i", "t", "h" >>
Sam    == << "S", "a", "m" >>
Jan    == << "J", "a", "n" >>
EdAcute == << "E/", "d" >>
DeLee  == << "D", "e", " ", "L", "e", "e" >>

\* (first_name, last_name) of the contacts added in Spec.
NamePool == { <<Jane, Doe>> }

\* The names typed at a "contact's full name" prompt in Spec.
NameInputs ==
    { Jane,                                         \* Jane
      << "j", "a", "n", "e", " ", "D", "O", "E" >>, \* jane DOE
      Sam }                                         \* Sam

\* The texts typed at the disambiguation prompt.
ChoiceInputs ==
    { <<"q">>, <<"Q">>, <<"1">>, <<"2">>, <<"3">>, <<"0">>, <<"-", "1">>,
      <<"5">>, <<"a", "b", "c">>, <<>>, <<" ", "2">> }

(***************************************************************************)
(* The store (personal_crm.db) and the program's position.                 *)
(***************************************************************************)
VARIABLES
    contacts,      \* table contacts: id -> [first_name, last_name, last_contacted_at],
                   \* and with each row `marks`: how often _update_last_contacted
                   \* has updated it (a history of the calls, not a column)
    seq,           \* sqlite_sequence of contacts (AUTOINCREMENT): the last id given
    notes,         \* table notes, in rowid order: [contact_id, note_text]
    reminders,     \* table reminders: [contact_id, message, reminder_date]
    tags,          \* table tags, in rowid order: the names (id = position)
    contact_tags,  \* table contact_tags: {<<contact_id, tag_id>>}
    occasions,     \* table special_occasions: [contact_id, name, date]
    gifts,         \* table gifts: [contact_id, description, direction, date]
    relationships, \* table relationships, in rowid order:
                   \* [contact1_id, contact2_id, relationship_type]
    now,           \* what datetime.datetime.now() returns
    pc,            \* "menu" | "prompt" | "edit" | "done" | "crashed"
    cmd,           \* the command being run, with its arguments
    shown,         \* choose_contact's local `contacts`: the ids found, in order
    res            \* what the command's resolution did (read by the properties)

store ==
    << contacts, seq, notes, reminders, tags, contact_tags, occasions, gifts,
       relationships >>

vars == << contacts, seq, notes, reminders, tags, contact_tags, occasions, gifts,
           relationships, now, pc, cmd, shown, res >>

\* Faulty variant of RowidOrder: the ids in descending order.
RECURSIVE Descending(_)
Descending(S) ==
    IF S = {} THEN <<>>
    ELSE LET m == CHOOSE x \in S : \A y \in S : x >= y
         IN  <<m>> \o Descending(S \ {m})

\* The ids of a set in ascending order: SQLite scans a rowid table by rowid.
RECURSIVE RowidOrder(_)
RowidOrder(S) ==
    IF S = {} THEN <<>>
    ELSE LET m == CHOOSE x \in S : \A y \in S : x <= y
         IN  <<m>> \o RowidOrder(S \ {m})

(***************************************************************************)
(* find_contacts_by_name                                                   *)
(***************************************************************************)
\* name_parts[0] with no part raises IndexError.
FindRaises(full_name) == PySplit(full_name) = <<>>

\* The WHERE clause of the one-name query.
WhereOne(row, term) ==
    SqlEq(SqlLower(row.first_name), term) \/ SqlEq(SqlLower(row.last_name), term)

\* The WHERE clause of the first-and-last-name query.
WhereBoth(row, first_name, last_name) ==
    SqlEq(SqlLower(row.first_name), first_name)
        /\ SqlEq(SqlLower(row.last_name), last_name)

\* The ids of the rows fetched from table `table`, in the order fetched.
FindIn(table, full_name) ==
    LET name_parts == PySplit(full_name)
    IN  IF Len(name_parts) = 1
        THEN LET term == PyLower(name_parts[1])
             IN  RowidOrder({ id \in DOMAIN table : WhereOne(table[id], term) })
        ELSE LET first_name == PyLower(name_parts[1])
                 last_name  == PyLower(PyJoin(Tail(name_parts)))
             IN  RowidOrder({ id \in DOMAIN table :
                                WhereBoth(table[id], first_name, last_name) })

find_contacts_by_name(full_name) == FindIn(contacts, full_name)

(***************************************************************************)
(* choose_contact                                                          *)
(***************************************************************************)
\* Faulty variant of FirstOutcome: the prompt whatever was found.
AlwaysPrompt(found) == "Prompt"

\* What choose_contact does with the rows found, before any prompt.
FirstOutcome(found) ==
    IF found = <<>> THEN "NotFound"
    ELSE IF Len(found) = 1 THEN "Found"
    ELSE "Prompt"

\* choice.lower() == 'q'
IsCancel(choice) == PyLower(choice) = <<"q">>

\* Faulty variant of InRange: no lower limit.
BelowLen(choice_index, n) == choice_index < n

\* 0 <= choice_index < len(contacts)
InRange(choice_index, n) == 0 <= choice_index /\ choice_index < n

\* Faulty variant of PyIndex: the index taken as counting from 1.
OneBased(list, i) == list[IF i = 0 THEN 1 ELSE i]

\* contacts[choice_index] of a Python list: a negative index counts from the end.
PyIndex(list, i) == IF i >= 0 THEN list[i + 1] ELSE list[Len(list) + i + 1]

\* One pass of the while loop on the text read: "cancel", "pick" or "again".
Select(list, choice) ==
    IF IsCancel(choice) THEN [kind |-> "cancel", id |-> NoId]
    ELSE LET n == PyInt(choice)
         IN  IF ~n.ok THEN [kind |-> "again", id |-> NoId]
             ELSE IF InRange(n.val - 1, Len(list))
                  THEN [kind |-> "pick", id |-> PyIndex(list, n.val - 1)]
                  ELSE [kind |-> "again", id |-> NoId]

(***************************************************************************)
(* Dates as typed: the text "y-m-d", or a text of another shape.           *)
(***************************************************************************)
Ymd(y, m, d) == [kind |-> "ymd", y |-> y, m |-> m, d |-> d]
JunkDate     == [kind |-> "junk", y |-> 0, m |-> 0, d |-> 0]
NoDate       == [kind |-> "none", y |-> 0, m |-> 0, d |-> 0]

LeapYear(y) == (y % 4 = 0 /\ y % 100 # 0) \/ y % 400 = 0

DaysInMonth(y, m) ==
    IF m = 2 THEN (IF LeapYear(y) THEN 29 ELSE 28)
    ELSE IF m \in { 4, 6, 9, 11 } THEN 30 ELSE 31

\* The text "y-m-d" with the month and the day written without a leading
\* zero ("2024-6-1"), where Ymd is the text with both of two digits.
YmdPlain(y, m, d) == [kind |-> "plain", y |-> y, m |-> m, d |-> d]

\* datetime.datetime.strptime(date_str, '%Y-%m-%d') does not raise ValueError:
\* %m and %d take one digit or two.
StrptimeOk(ds) ==
    ds.kind \in { "ymd", "plain" } /\ ds.y \in 1..9999 /\ ds.m \in 1..12
        /\ ds.d \in 1..DaysInMonth(ds.y, ds.m)

\* The characters of a date text, and their bytes: SQLite compares TEXT
\* values byte by byte (collation BINARY).
DecimalDigits == << "0", "1", "2", "3", "4", "5", "6", "7", "8", "9" >>

DigitChar(n) == DecimalDigits[n + 1]

ByteOf(c) ==
    IF c = "-" THEN 45 ELSE 48 + ((CHOOSE i \in 1..10 : DecimalDigits[i] = c) - 1)

TwoDigits(n) == << DigitChar(n \div 10), DigitChar(n % 10) >>

FourDigits(n) == TwoDigits(n \div 100) \o TwoDigits(n % 100)

AsTyped(n) == IF n < 10 THEN << DigitChar(n) >> ELSE TwoDigits(n)

\* The text of a date as it was typed, which is what the INSERT stores.
DateText(ds) ==
    IF ds.kind = "plain"
    THEN FourDigits(ds.y) \o << "-" >> \o AsTyped(ds.m) \o << "-" >> \o AsTyped(ds.d)
    ELSE FourDigits(ds.y) \o << "-" >> \o TwoDigits(ds.m) \o << "-" >> \o TwoDigits(ds.d)

\* a < b of two TEXT values.
RECURSIVE TextLess(_, _)
TextLess(a, b) ==
    IF b = <<>> THEN FALSE
    ELSE IF a = <<>> THEN TRUE
    ELSE IF a[1] = b[1] THEN TextLess(Tail(a), Tail(b))
    ELSE ByteOf(a[1]) < ByteOf(b[1])

TextLeq(a, b) == a = b \/ TextLess(a, b)

\* date + datetime.timedelta(days=k)
RECURSIVE AddDays(_, _)
AddDays(ds, k) ==
    IF k = 0 THEN ds
    ELSE AddDays(IF ds.d < DaysInMonth(ds.y, ds.m) THEN Ymd(ds.y, ds.m, ds.d + 1)
                 ELSE IF ds.m < 12 THEN Ymd(ds.y, ds.m + 1, 1)
                 ELSE Ymd(ds.y + 1, 1, 1),
                 k - 1)

\* date.toordinal(): the days from 0001-01-01, which is day 1.
RECURSIVE DaysBeforeMonth(_, _)
DaysBeforeMonth(y, m) ==
    IF m = 1 THEN 0 ELSE DaysBeforeMonth(y, m - 1) + DaysInMonth(y, m - 1)

Ordinal(ds) ==
    LET p == ds.y - 1
    IN  365 * p + (p \div 4) - (p \div 100) + (p \div 400)
            + DaysBeforeMonth(ds.y, ds.m) + ds.d

\* The clock counts days; its reading 0 falls on this day.
FirstDay == Ymd(2024, 5, 28)

\* datetime.date.today() at the clock reading t.
Today(t) == AddDays(FirstDay, t)

DateInputs == { Ymd(2024, 5, 1), Ymd(2024, 2, 30), JunkDate }

TagInputs == { "vip" }

Msg == "x"

(***************************************************************************)
(* The commands of the menu that take a contact's name.                    *)
(***************************************************************************)
Command(op, name, date, tag) == [op |-> op, name |-> name, date |-> date, tag |-> tag]

NoCmd == Command("none", <<>>, NoDate, "")

ReadOps  == { "view", "edit", "delete" }
NoteOps  == { "note", "log" }
DateOps  == { "reminder", "occasion", "gift" }
TagOps   == { "tag", "untag" }

\* The date typed for a gift: none (it is optional), or a date.
GiftDateInputs == { NoDate, Ymd(2024, 2, 30) }

Commands ==
    { Command(op, n, NoDate, "") : op \in ReadOps \cup NoteOps, n \in NameInputs }
        \cup { Command(op, n, d, "") : op \in { "reminder", "occasion" },
                                        n \in NameInputs, d \in DateInputs }
        \cup { Command("gift", n, d, "") : n \in NameInputs, d \in GiftDateInputs }
        \cup { Command(op, n, NoDate, t) : op \in TagOps, n \in NameInputs, t \in TagInputs }

\* Rows written so far to the dependent tables.
TotalRows ==
    Len(notes) + Len(reminders) + Len(occasions) + Len(gifts) + Cardinality(contact_tags)

Inserts(op) == op \in NoteOps \cup DateOps \cup { "tag" }

\* listed: the contacts shown, in order; overdue, upcoming: the reminders
\* shown (their rowids), in order; printed: the sections in the order printed;
\* conns: the connections the command opened and has not closed; schema,
\* tables: the tables of the database file before and after create_tables.
NoRes ==
    [op |-> "none", outcome |-> "none", id |-> NoId, reads |-> 0, listed |-> <<>>,
     overdue |-> <<>>, upcoming |-> <<>>, printed |-> <<>>, conns |-> 0,
     schema |-> {}, tables |-> {}, tag |-> "", had |-> FALSE]

(***************************************************************************)
(* _update_last_contacted: UPDATE contacts SET last_contacted_at = now     *)
(* WHERE id = contact_id.                                                  *)
(***************************************************************************)
\* Faulty variant of Stamp: the old value is kept.
KeepStamp(old, t) == old

\* Faulty variant of Stamp: the later of the old value and the clock reading.
LaterStamp(old, t) == IF old > t THEN old ELSE t

\* The value SET by the UPDATE: the clock reading, whatever the old value.
Stamp(old, t) == t

\* Faulty variant of update_last_contacted: the UPDATE without its WHERE.
UpdateEveryRow(table, contact_id, t) ==
    [i \in DOMAIN table |->
        [table[i] EXCEPT !.last_contacted_at = Stamp(@, t), !.marks = @ + 1]]

update_last_contacted(table, contact_id, t) ==
    [i \in DOMAIN table |->
        IF i = contact_id
        THEN [table[i] EXCEPT !.last_contacted_at = Stamp(@, t), !.marks = @ + 1]
        ELSE table[i]]

\* Faulty variant of Aborts: the command goes on without a contact.
NeverAborts(contact_id) == FALSE

\* "if not contact_id: return" at the head of every command.
Aborts(contact_id) == contact_id = NoId

\* The position of a tag name in table tags, 0 when there is no such tag.
TagId(name) ==
    IF \E i \in 1..Len(tags) : tags[i] = name
    THEN CHOOSE i \in 1..Len(tags) : tags[i] = name
    ELSE 0

\* Whether the contact has the tag of that name (kept in res.had for the
\* properties: what held when the command began).
HasTag(contact_id, tag_name) ==
    TagId(tag_name) # 0 /\ <<contact_id, TagId(tag_name)>> \in contact_tags

(***************************************************************************)
(* The commands, from the point where choose_contact has returned          *)
(* contact_id.  Each gives the store after the command.                    *)
(***************************************************************************)
\* Faulty variant of view_contact: viewing marks the contact as contacted.
MarkOnView(contact_id) ==
    /\ contacts' = update_last_contacted(contacts, contact_id, now)
    /\ UNCHANGED << seq, notes, reminders, tags, contact_tags, occasions, gifts, relationships >>

\* view_contact only reads.
view_contact(contact_id) == UNCHANGED store

add_note(contact_id) ==
    IF Aborts(contact_id) THEN UNCHANGED store
    ELSE /\ notes' = Append(notes, [contact_id |-> contact_id, note_text |-> <<Msg>>])
         /\ contacts' = update_last_contacted(contacts, contact_id, now)
         /\ UNCHANGED << seq, reminders, tags, contact_tags, occasions, gifts, relationships >>

log_interaction(contact_id) ==
    IF Aborts(contact_id) THEN UNCHANGED store
    ELSE /\ notes' = Append(notes, [contact_id |-> contact_id,
                                    note_text |-> <<"Logged interaction: ", Msg>>])
         /\ contacts' = update_last_contacted(contacts, contact_id, now)
         /\ UNCHANGED << seq, reminders, tags, contact_tags, occasions, gifts, relationships >>

add_reminder(contact_id, date_str) ==
    IF Aborts(contact_id) \/ ~StrptimeOk(date_str) THEN UNCHANGED store
    ELSE /\ reminders' = Append(reminders, [contact_id |-> contact_id, message |-> Msg,
                                            reminder_date |-> date_str])
         /\ contacts' = update_last_contacted(contacts, contact_id, now)
         /\ UNCHANGED << seq, notes, tags, contact_tags, occasions, gifts, relationships >>

\* Faulty variant of add_tag_to_contact: tagging marks the contact as contacted.
TagAndMark(contact_id, tag_name) ==
    IF Aborts(contact_id) THEN UNCHANGED store
    ELSE LET known  == TagId(tag_name) # 0
             tag_id == IF known THEN TagId(tag_name) ELSE Len(tags) + 1
         IN  /\ tags' = IF known THEN tags ELSE Append(tags, tag_name)
             /\ contact_tags' = contact_tags \cup { <<contact_id, tag_id>> }
             /\ contacts' = update_last_contacted(contacts, contact_id, now)
             /\ UNCHANGED << seq, notes, reminders, occasions, gifts, relationships >>

add_tag_to_contact(contact_id, tag_name) ==
    IF Aborts(contact_id) THEN UNCHANGED store
    ELSE LET known  == TagId(tag_name) # 0
             tag_id == IF known THEN TagId(tag_name) ELSE Len(tags) + 1
         IN  IF <<contact_id, tag_id>> \in contact_tags
             THEN UNCHANGED store      \* IntegrityError: nothing is committed
             ELSE /\ tags' = IF known THEN tags ELSE Append(tags, tag_name)
                  /\ contact_tags' = contact_tags \cup { <<contact_id, tag_id>> }
                  /\ UNCHANGED << contacts, seq, notes, reminders, occasions, gifts, relationships >>

remove_tag_from_contact(contact_id, tag_name) ==
    IF Aborts(contact_id) \/ TagId(tag_name) = 0 THEN UNCHANGED store
    ELSE /\ contact_tags' = contact_tags \ { <<contact_id, TagId(tag_name)>> }
         /\ UNCHANGED << contacts, seq, notes, reminders, tags, occasions, gifts, relationships >>

add_special_occasion(contact_id, date_str) ==
    IF Aborts(contact_id) \/ ~StrptimeOk(date_str) THEN UNCHANGED store
    ELSE /\ occasions' = Append(occasions, [contact_id |-> contact_id, name |-> Msg,
                                            date |-> date_str])
         /\ UNCHANGED << contacts, seq, notes, reminders, tags, contact_tags, gifts, relationships >>

add_gift(contact_id, date_str) ==
    IF Aborts(contact_id) \/ (date_str # NoDate /\ ~StrptimeOk(date_str))
    THEN UNCHANGED store
    ELSE /\ gifts' = Append(gifts, [contact_id |-> contact_id, description |-> Msg,
                                    direction |-> "given", date |-> date_str])
         /\ UNCHANGED << contacts, seq, notes, reminders, tags, contact_tags, occasions, relationships >>

\* The answer to "Are you sure you want to delete ...? (y/n)" is read here.
delete_contact(contact_id) ==
    IF Aborts(contact_id) THEN UNCHANGED store
    ELSE \E confirm \in { "y", "n" } :
            IF confirm = "y"
            THEN /\ contacts' = [i \in DOMAIN contacts \ { contact_id } |-> contacts[i]]
                 /\ UNCHANGED << seq, notes, reminders, tags, contact_tags, occasions,
                                 gifts, relationships >>
            ELSE UNCHANGED store

\* edit_contact up to its menu loop.
edit_contact(contact_id) == UNCHANGED store

Body(c, contact_id) ==
    CASE c.op = "view"     -> view_contact(contact_id)
      [] c.op = "edit"     -> edit_contact(contact_id)
      [] c.op = "delete"   -> delete_contact(contact_id)
      [] c.op = "note"     -> add_note(contact_id)
      [] c.op = "log"      -> log_interaction(contact_id)
      [] c.op = "reminder" -> add_reminder(contact_id, c.date)
      [] c.op = "tag"      -> add_tag_to_contact(contact_id, c.tag)
      [] c.op = "untag"    -> remove_tag_from_contact(contact_id, c.tag)
      [] c.op = "occasion" -> add_special_occasion(contact_id, c.date)
      [] c.op = "gift"     -> add_gift(contact_id, c.date)

\* Where the program is after the command got contact_id.
After(c, contact_id) ==
    IF c.op = "edit" /\ ~Aborts(contact_id) THEN "edit" ELSE "done"

\* Faulty variant of DirectId: never an id.
NoneFound(found) == NoId

\* contacts[0]['id'] when one row was found; None when none was.
DirectId(found) == IF Len(found) = 1 THEN found[1] ELSE NoId

(***************************************************************************)
(* Actions                                                                 *)
(***************************************************************************)
\* Faulty variant of NewId: the id of a table declared without AUTOINCREMENT,
\* one more than the largest id in the table.
LargestPlusOne(table, last) ==
    IF DOMAIN table = {} THEN 1
    ELSE (CHOOSE x \in DOMAIN table : \A y \in DOMAIN table : x >= y) + 1

\* The id given by INTEGER PRIMARY KEY AUTOINCREMENT: one more than the
\* largest id the table ever held, which sqlite_sequence records.
NewId(table, last) == last + 1

\* add_contact(first_name, last_name), on a table that has the columns the
\* INSERT names.  No column but id is unique: no name is refused.
AddContact(first_name, last_name) ==
    /\ pc = "menu"
    /\ LET contact_id == NewId(contacts, seq)
       IN  /\ seq' = IF contact_id > seq THEN contact_id ELSE seq
           /\ contacts' = [i \in DOMAIN contacts \cup { contact_id } |->
                             IF i = contact_id
                             THEN [first_name |-> first_name, last_name |-> last_name,
                                   last_contacted_at |-> Never, marks |-> 0]
                             ELSE contacts[i]]
    /\ UNCHANGED << notes, reminders, tags, contact_tags, occasions, gifts, relationships,
                    now, pc, cmd, shown, res >>

\* A command is chosen and its name typed: choose_contact up to its first
\* return or its first prompt, and on a return the rest of the command.
Start(c) ==
    /\ pc = "menu"
    /\ ~FindRaises(c.name)
    /\ LET found == find_contacts_by_name(c.name)
           out   == FirstOutcome(found)
       IN  IF out = "Prompt"
           THEN /\ pc' = "prompt"
                /\ shown' = found
                /\ cmd' = c
                /\ res' = [NoRes EXCEPT !.op = c.op, !.outcome = "Prompt",
                                         !.listed = found, !.tag = c.tag]
                /\ UNCHANGED store
           ELSE /\ Body(c, DirectId(found))
                /\ pc' = After(c, DirectId(found))
                /\ shown' = <<>>
                /\ cmd' = NoCmd
                /\ res' = [NoRes EXCEPT !.op = c.op, !.outcome = out,
                                         !.id = DirectId(found), !.tag = c.tag,
                                         !.had = HasTag(DirectId(found), c.tag)]
    /\ now' = now

\* A text is read at "Enter the number of the contact (or 'q' to cancel): ".
Input(choice) ==
    /\ pc = "prompt"
    /\ LET sel   == Select(shown, choice)
           reads == IF res.reads < MaxReads THEN res.reads + 1 ELSE MaxReads
       IN  CASE sel.kind = "again" ->
                  /\ pc' = "prompt"
                  /\ res' = [res EXCEPT !.reads = reads]
                  /\ UNCHANGED << store, cmd, shown >>
             [] sel.kind = "cancel" ->
                  /\ Body(cmd, NoId)
                  /\ pc' = After(cmd, NoId)
                  /\ res' = [res EXCEPT !.reads = reads, !.outcome = "Cancelled"]
                  /\ cmd' = NoCmd
                  /\ shown' = <<>>
             [] sel.kind = "pick" ->
                  /\ Body(cmd, sel.id)
                  /\ pc' = After(cmd, sel.id)
                  /\ res' = [res EXCEPT !.reads = reads, !.outcome = "Chosen",
                                        !.id = sel.id]
                  /\ cmd' = NoCmd
                  /\ shown' = <<>>
    /\ now' = now

\* edit_contact's choice '1': both names are read and stripped.
EditName(new_first_name, new_last_name) ==
    /\ pc = "edit"
    /\ IF new_first_name # <<>> /\ res.id \in DOMAIN contacts
       THEN contacts' = [contacts EXCEPT
                           ![res.id].first_name = new_first_name,
                           ![res.id].last_name =
                               IF new_last_name = <<>> THEN Null ELSE new_last_name]
       ELSE contacts' = contacts
    /\ UNCHANGED << seq, notes, reminders, tags, contact_tags, occasions, gifts, relationships,
                    now, pc, cmd, shown, res >>

\* edit_contact's choice '11'.
EditBack ==
    /\ pc = "edit"
    /\ pc' = "done"
    /\ UNCHANGED << store, now, cmd, shown, res >>

\* "Press Enter to continue...": back at the menu.
Return ==
    /\ pc = "done"
    /\ pc' = "menu"
    /\ res' = NoRes
    /\ cmd' = NoCmd
    /\ shown' = <<>>
    /\ UNCHANGED << store, now >>

\* Time passes.
Tick ==
    /\ pc = "menu"
    /\ now < MaxTime
    /\ now' = now + 1
    /\ UNCHANGED << store, pc, cmd, shown, res >>

\* The local wall clock is set back (the end of daylight saving time, a
\* correction of the system clock): datetime.now() is naive local time.
ClockSetBack ==
    /\ pc = "menu"
    /\ now > 0
    /\ now' = now - 1
    /\ UNCHANGED << store, pc, cmd, shown, res >>

(***************************************************************************)
(* The windows of the GUI (class App).  Its dialogs are modal, and the map *)
(* from the names in its comboboxes to ids is read again after every       *)
(* change of table contacts: the id a handler gets is of a row of the      *)
(* table.                                                                  *)
(***************************************************************************)
\* _add_note_by_id
add_note_by_id(contact_id, message) ==
    /\ notes' = Append(notes, [contact_id |-> contact_id, note_text |-> message])
    /\ contacts' = update_last_contacted(contacts, contact_id, now)
    /\ UNCHANGED << seq, reminders, tags, contact_tags, occasions, gifts, relationships >>

\* Faulty variant of log_interaction_by_id: the update is made by the
\* handler as well as by _add_note_by_id.
LogMarksTwice(contact_id, message) ==
    /\ notes' = Append(notes, [contact_id |-> contact_id,
                               note_text |-> << "Logged interaction: " >> \o message])
    /\ contacts' = update_last_contacted(
                       update_last_contacted(contacts, contact_id, now), contact_id, now)
    /\ UNCHANGED << seq, reminders, tags, contact_tags, occasions, gifts, relationships >>

\* _log_interaction_by_id
log_interaction_by_id(contact_id, message) ==
    add_note_by_id(contact_id, << "Logged interaction: " >> \o message)

\* Faulty variant of save_reminder: the row is written and the contact is
\* not marked.
SaveWithoutMark(contact_id, date_str) ==
    IF date_str = NoDate \/ ~StrptimeOk(date_str) THEN UNCHANGED store
    ELSE /\ reminders' = Append(reminders, [contact_id |-> contact_id, message |-> Msg,
                                            reminder_date |-> date_str])
         /\ UNCHANGED << contacts, seq, notes, tags, contact_tags, occasions, gifts, relationships >>

\* save() of _open_reminder_dialog
save_reminder(contact_id, date_str) ==
    IF date_str = NoDate \/ ~StrptimeOk(date_str) THEN UNCHANGED store
    ELSE /\ reminders' = Append(reminders, [contact_id |-> contact_id, message |-> Msg,
                                            reminder_date |-> date_str])
         /\ contacts' = update_last_contacted(contacts, contact_id, now)
         /\ UNCHANGED << seq, notes, tags, contact_tags, occasions, gifts, relationships >>

\* What a handler of the GUI leaves for the properties to read.
GuiRes(op, contact_id) ==
    [NoRes EXCEPT !.op = op, !.outcome = "Found", !.id = contact_id]

\* add_note_window, with the text saved.
GuiAddNote(contact_id) ==
    /\ pc = "menu"
    /\ contact_id \in DOMAIN contacts
    /\ add_note_by_id(contact_id, << Msg >>)
    /\ pc' = "done"
    /\ res' = GuiRes("gui_note", contact_id)
    /\ UNCHANGED << now, cmd, shown >>

\* log_interaction_window, with the text saved.
GuiLogInteraction(contact_id) ==
    /\ pc = "menu"
    /\ contact_id \in DOMAIN contacts
    /\ log_interaction_by_id(contact_id, << Msg >>)
    /\ pc' = "done"
    /\ res' = GuiRes("gui_log", contact_id)
    /\ UNCHANGED << now, cmd, shown >>

\* add_reminder_window, with Save pressed.
GuiAddReminder(contact_id, date_str) ==
    /\ pc = "menu"
    /\ contact_id \in DOMAIN contacts
    /\ save_reminder(contact_id, date_str)
    /\ pc' = "done"
    /\ res' = GuiRes("gui_reminder", contact_id)
    /\ UNCHANGED << now, cmd, shown >>

\* App.delete_contact on the row selected, askyesno answered.
GuiDeleteContact(contact_id) ==
    /\ pc = "menu"
    /\ contact_id \in DOMAIN contacts
    /\ \E yes \in BOOLEAN :
          IF yes
          THEN /\ contacts' = [i \in DOMAIN contacts \ { contact_id } |-> contacts[i]]
               /\ UNCHANGED << seq, notes, reminders, tags, contact_tags, occasions,
                               gifts, relationships >>
          ELSE UNCHANGED store
    /\ pc' = "done"
    /\ res' = GuiRes("gui_delete", contact_id)
    /\ UNCHANGED << now, cmd, shown >>

(***************************************************************************)
(* The commands that only read: list_contacts, advanced_search_contacts,   *)
(* list_reminders, suggest_contacts and show_status_dashboard.             *)
(***************************************************************************)
\* suggest_contacts(days=30)
DefaultDays == 30

\* The days of "the next 7 days" of the dashboard.
WeekDays == 7

\* a < b of SQL: with a NULL on either side it is not true.
SqlLess(a, b) == a # Never /\ b # Never /\ a < b

\* ORDER BY last_contacted_at ASC of the ids S (NULL sorts first).
RECURSIVE ByLastContacted(_, _)
ByLastContacted(table, S) ==
    IF S = {} THEN <<>>
    ELSE LET m == CHOOSE x \in S : \A y \in S :
                      \/ table[x].last_contacted_at < table[y].last_contacted_at
                      \/ /\ table[x].last_contacted_at = table[y].last_contacted_at
                         /\ x <= y
         IN  << m >> \o ByLastContacted(table, S \ { m })

\* The rows suggest_contacts fetches at the clock reading t.
suggest_contacts(table, t, days) ==
    LET threshold_date == t - days
    IN  ByLastContacted(table,
            { i \in DOMAIN table : SqlLess(table[i].last_contacted_at, threshold_date) })

\* ORDER BY r.reminder_date ASC of the rows S of table reminders.
RECURSIVE ByReminderDate(_)
ByReminderDate(S) ==
    IF S = {} THEN <<>>
    ELSE LET m == CHOOSE x \in S : \A y \in S :
                      \/ TextLess(DateText(reminders[x].reminder_date),
                                  DateText(reminders[y].reminder_date))
                      \/ /\ reminders[x].reminder_date = reminders[y].reminder_date
                         /\ x <= y
         IN  << m >> \o ByReminderDate(S \ { m })

\* reminders r JOIN contacts c ON r.contact_id = c.id
Joined == { r \in 1..Len(reminders) : reminders[r].contact_id \in DOMAIN contacts }

\* WHERE r.reminder_date < today_str
overdue_reminders(today_str) ==
    ByReminderDate({ r \in Joined :
                       TextLess(DateText(reminders[r].reminder_date), today_str) })

\* WHERE r.reminder_date >= today_str AND r.reminder_date <= next_week_str
upcoming_reminders(today_str, next_week_str) ==
    ByReminderDate({ r \in Joined :
                       /\ ~TextLess(DateText(reminders[r].reminder_date), today_str)
                       /\ TextLeq(DateText(reminders[r].reminder_date), next_week_str) })

\* WHERE r.reminder_date >= today of list_reminders
reminders_from(today_str) ==
    ByReminderDate({ r \in Joined :
                       ~TextLess(DateText(reminders[r].reminder_date), today_str) })

\* A command that reads and prints: the store and the clock stay.
Reads(result) ==
    /\ pc = "menu"
    /\ pc' = "done"
    /\ res' = result
    /\ UNCHANGED << store, now, cmd, shown >>

\* list_contacts(): every contact is printed.
ListContacts == Reads([NoRes EXCEPT !.op = "list_contacts"])

\* advanced_search_contacts(criteria): the contacts matching are printed.
AdvancedSearch == Reads([NoRes EXCEPT !.op = "search"])

\* list_reminders()
ListReminders ==
    Reads([NoRes EXCEPT !.op = "list_reminders",
                        !.upcoming = reminders_from(DateText(Today(now)))])

\* suggest_contacts(days)
Suggest(days) ==
    Reads([NoRes EXCEPT !.op = "suggest",
                        !.listed = suggest_contacts(contacts, now, days),
                        !.printed = << "suggestions" >>])

\* show_status_dashboard()
Dashboard ==
    LET today_str     == DateText(Today(now))
        next_week_str == DateText(AddDays(Today(now), WeekDays))
    IN  Reads([NoRes EXCEPT !.op = "dashboard",
                            !.overdue = overdue_reminders(today_str),
                            !.upcoming = upcoming_reminders(today_str, next_week_str),
                            !.listed = suggest_contacts(contacts, now, DefaultDays),
                            !.printed = << "overdue", "upcoming", "suggestions" >>])

Init ==
    /\ contacts = <<>>
    /\ seq = 0
    /\ notes = <<>>
    /\ reminders = <<>>
    /\ tags = <<>>
    /\ contact_tags = {}
    /\ occasions = <<>>
    /\ gifts = <<>>
    /\ relationships = <<>>
    /\ now = 0
    /\ pc = "menu"
    /\ cmd = NoCmd
    /\ shown = <<>>
    /\ res = NoRes

\* The (first name, last name) pairs typed in edit_contact: a name, or nothing.
EditInputs == NamePool \cup { << <<>>, Doe >> }

(***************************************************************************)
(* Spec: the menu with its ten commands that take a contact's name.        *)
(***************************************************************************)
Next ==
    \/ \E n \in NamePool : seq < MaxContacts /\ AddContact(n[1], n[2])
    \/ \E c \in Commands : (Inserts(c.op) => TotalRows < MaxRows) /\ Start(c)
    \/ \E choice \in ChoiceInputs : Input(choice)
    \/ \E n \in EditInputs : EditName(n[1], n[2])
    \/ EditBack
    \/ Return
    \/ Tick

Spec == Init /\ [][Next]_vars

(***************************************************************************)
(* SpecResolve: contacts of several names, and the commands view and       *)
(* delete run on them: the setting of choose_contact.                      *)
(***************************************************************************)
JaneDoe == Jane \o << " " >> \o Doe

\* (first_name, last_name) of the contacts added in SpecResolve.
ResolvePool == { <<Jane, Doe>>, <<Jane, Smith>>, <<EdAcute, Null>> }

\* The names typed at a "contact's full name" prompt in SpecResolve.
ResolveInputs == { Jane, JaneDoe, Sam, EdAcute }

ResolveCommands ==
    { Command(op, n, NoDate, "") : op \in { "view", "delete" }, n \in ResolveInputs }

NextResolve ==
    \/ \E n \in ResolvePool : seq < MaxCandidates /\ AddContact(n[1], n[2])
    \/ \E c \in ResolveCommands : Start(c)
    \/ \E choice \in ChoiceInputs : Input(choice)
    \/ Return

SpecResolve == Init /\ [][NextResolve]_vars

(***************************************************************************)
(* SpecClock: notes and reminders under a wall clock that can be set back. *)
(***************************************************************************)
ClockCommands ==
    { Command(op, Jane, NoDate, "") : op \in ReadOps \cup { "note" } }
        \cup { Command("reminder", Jane, Ymd(2024, 5, 1), "") }

NextClock ==
    \/ \E n \in NamePool : seq < MaxContacts /\ AddContact(n[1], n[2])
    \/ \E c \in ClockCommands :
          (Inserts(c.op) => Len(notes) + Len(reminders) < MaxNotes) /\ Start(c)
    \/ \E choice \in ChoiceInputs : Input(choice)
    \/ \E n \in EditInputs : EditName(n[1], n[2])
    \/ EditBack
    \/ Return
    \/ Tick
    \/ ClockSetBack

SpecClock == Init /\ [][NextClock]_vars

(***************************************************************************)
(* SpecFind: find_contacts_by_name applied to the tables of at most        *)
(* MaxFindRows rows.                                                       *)
(***************************************************************************)
\* (first_name, last_name) of the rows of those tables.
FindPool ==
    { <<Jane, Doe>>, <<Jane, Smith>>, <<Jan, Doe>>, <<Doe, Null>>, <<Sam, DeLee>>,
      <<EdAcute, Null>> }

\* The names looked up.
FindInputs ==
    { Jane, JaneDoe, Doe, Jan, EdAcute,
      << "j", "a", "n", "e", " ", "D", "O", "E" >>,          \* jane DOE
      << " ", "J", "A", "N", "E", " " >>,                    \* " JANE "
      << "J", "a", "n", "e", " ", " ", "D", "o", "e" >>,     \* Jane  Doe
      << "e/", "d" >>,                                       \* the lower case of EdAcute
      << "s", "a", "m", " ", "d", "e", " ", " ", "L", "E", "E" >>,  \* sam de  LEE
      << "S", "a", "m", " ", "D", "e" >>,                    \* Sam De
      Sam \o Doe }                                           \* SamDoe

\* The tables of n rows with names of FindPool, as n calls of add_contact leave them.
TablesOf(n) ==
    { [i \in 1..n |-> [first_name |-> f[i][1], last_name |-> f[i][2],
                       last_contacted_at |-> Never, marks |-> 0]] : f \in [1..n -> FindPool] }

InitFind ==
    /\ \E n \in 0..MaxFindRows : contacts \in TablesOf(n) /\ seq = n
    /\ notes = <<>>
    /\ reminders = <<>>
    /\ tags = <<>>
    /\ contact_tags = {}
    /\ occasions = <<>>
    /\ gifts = <<>>
    /\ relationships = <<>>
    /\ now = 0
    /\ pc = "menu"
    /\ cmd = NoCmd
    /\ shown = <<>>
    /\ res = NoRes

\* A call of find_contacts_by_name(full_name): the rows fetched are in `shown`.
Find(full_name) ==
    /\ pc = "menu"
    /\ ~FindRaises(full_name)
    /\ pc' = "done"
    /\ cmd' = Command("find", full_name, NoDate, "")
    /\ shown' = find_contacts_by_name(full_name)
    /\ res' = [NoRes EXCEPT !.op = "find"]
    /\ UNCHANGED << store, now >>

NextFind ==
    \/ \E full_name \in FindInputs : Find(full_name)
    \/ Return

SpecFind == InitFind /\ [][NextFind]_vars

(***************************************************************************)
(* SpecTrack: the commands that record a note, an interaction or a         *)
(* reminder, from the menu and from the GUI, among the commands that only  *)
(* read and the commands on tags.                                          *)
(***************************************************************************)
TrackCommands ==
    { Command(op, n, NoDate, "") : op \in { "view", "note", "log" }, n \in { Jane, Sam } }
        \cup { Command("reminder", Jane, d, "") : d \in { Ymd(2024, 5, 1), Ymd(2024, 2, 30) } }
        \cup { Command(op, Jane, NoDate, t) : op \in TagOps, t \in TagInputs }

\* Rows written so far in SpecTrack.
TrackRows == Len(notes) + Len(reminders) + Cardinality(contact_tags)

\* The days typed for "suggest --days".
SuggestDays == { 0, 1, DefaultDays }

NextTrack ==
    \/ \E n \in NamePool : seq < MaxContacts /\ AddContact(n[1], n[2])
    \/ \E c \in TrackCommands :
          (Inserts(c.op) => TrackRows < MaxTrackRows) /\ Start(c)
    \/ \E choice \in ChoiceInputs : Input(choice)
    \/ \E i \in 1..MaxContacts : TrackRows < MaxTrackRows /\ GuiAddNote(i)
    \/ \E i \in 1..MaxContacts : TrackRows < MaxTrackRows /\ GuiLogInteraction(i)
    \/ \E i \in 1..MaxContacts, d \in { Ymd(2024, 5, 1), JunkDate } :
          TrackRows < MaxTrackRows /\ GuiAddReminder(i, d)
    \/ ListContacts
    \/ AdvancedSearch
    \/ ListReminders
    \/ \E days \in SuggestDays : Suggest(days)
    \/ Dashboard
    \/ Return
    \/ Tick

SpecTrack == Init /\ [][NextTrack]_vars

(***************************************************************************)
(* SpecMark: _update_last_contacted called with any id, of a contact of    *)
(* the table, of a contact deleted, or of none, under a wall clock that    *)
(* can be set back.                                                        *)
(***************************************************************************)
\* A call _update_last_contacted(contact_id); it has no branch and no
\* exception handler, and an UPDATE that matches no row is no error.
MarkContacted(contact_id) ==
    /\ pc = "menu"
    /\ contacts' = update_last_contacted(contacts, contact_id, now)
    /\ pc' = "done"
    /\ res' = [NoRes EXCEPT !.op = "mark", !.id = contact_id]
    /\ UNCHANGED << seq, notes, reminders, tags, contact_tags, occasions, gifts, relationships,
                    now, cmd, shown >>

\* The ids passed: None (0), and the ids up to one that was never given.
MarkIds == 0..(MaxContacts + 1)

NextMark ==
    \/ \E n \in NamePool : seq < MaxContacts /\ AddContact(n[1], n[2])
    \/ \E i \in 1..MaxContacts : GuiDeleteContact(i)
    \/ \E i \in 1..MaxContacts : Len(notes) < 1 /\ GuiAddNote(i)
    \/ \E contact_id \in MarkIds :
          /\ contact_id \in DOMAIN contacts => contacts[contact_id].marks < MaxMarks
          /\ MarkContacted(contact_id)
    \/ Return
    \/ Tick
    \/ ClockSetBack

SpecMark == Init /\ [][NextMark]_vars

(***************************************************************************)
(* SpecDash: reminders set from the menu and from the GUI, and the         *)
(* dashboard and list_reminders run on them as the days pass.              *)
(***************************************************************************)
\* The dates typed for a reminder: the day before FirstDay, four days after
\* it (typed with and without the leading zeros), and a day a month later.
DashDates ==
    { Ymd(2024, 5, 27), Ymd(2024, 6, 1), YmdPlain(2024, 6, 1), Ymd(2024, 6, 30) }

DashCommands == { Command("reminder", Jane, d, "") : d \in DashDates }

NextDash ==
    \/ \E n \in NamePool : seq < MaxContacts /\ AddContact(n[1], n[2])
    \/ \E c \in DashCommands : Len(reminders) < MaxReminders /\ Start(c)
    \/ \E choice \in ChoiceInputs : Input(choice)
    \/ \E i \in 1..MaxContacts, d \in DashDates :
          Len(reminders) < MaxReminders /\ GuiAddReminder(i, d)
    \/ ListReminders
    \/ Dashboard
    \/ Return
    \/ Tick

SpecDash == Init /\ [][NextDash]_vars

(***************************************************************************)
(* SpecIdentity: contacts of one name added, renamed and deleted.          *)
(***************************************************************************)
IdentityCommands == { Command("edit", n, NoDate, "") : n \in { Jane, Sam } }

\* The (first name, last name) pairs typed in edit_contact in SpecIdentity.
RenameInputs == { <<Jane, Doe>>, <<Sam, <<>> >>, << <<>>, Doe >> }

NextIdentity ==
    \/ \E n \in NamePool : seq < MaxIds /\ AddContact(n[1], n[2])
    \/ \E i \in 1..MaxIds : GuiDeleteContact(i)
    \/ \E c \in IdentityCommands : Start(c)
    \/ \E choice \in ChoiceInputs : Input(choice)
    \/ \E n \in RenameInputs : EditName(n[1], n[2])
    \/ EditBack
    \/ Return

SpecIdentity == Init /\ [][NextIdentity]_vars

(***************************************************************************)
(* SpecGui: notes added from the menu, by a name typed, and from the GUI,  *)
(* by a name selected in its combobox.                                     *)
(***************************************************************************)
\* f"{c['first_name']} {c['last_name'] or ''}": the name shown in a combobox.
DisplayName(row) ==
    row.first_name \o << " " >> \o (IF row.last_name = Null THEN <<>> ELSE row.last_name)

\* The ids contact_map can hold for a name shown: the dict keeps one id for
\* a name, the one of the row fetched last among the rows of that name, and
\* ORDER BY first_name, last_name leaves the order of such rows open.
contact_map(selected_name) ==
    { i \in DOMAIN contacts : DisplayName(contacts[i]) = selected_name }

\* add_note_window with a name selected in interaction_contact_combo, and
\* the text saved.
GuiAddNoteFor(selected_name) ==
    /\ pc = "menu"
    /\ \E contact_id \in contact_map(selected_name) :
          /\ add_note_by_id(contact_id, << Msg >>)
          /\ res' = GuiRes("gui_note", contact_id)
    /\ pc' = "done"
    /\ cmd' = Command("gui_note", selected_name, NoDate, "")
    /\ UNCHANGED << now, shown >>

GuiCommands == { Command(op, n, NoDate, "") : op \in { "view", "note" }, n \in { Jane, JaneDoe } }

NextGui ==
    \/ \E n \in NamePool : seq < MaxContacts /\ AddContact(n[1], n[2])
    \/ \E c \in GuiCommands : (Inserts(c.op) => Len(notes) < MaxNotes) /\ Start(c)
    \/ \E choice \in ChoiceInputs : Input(choice)
    \/ \E n \in { JaneDoe, Jane } : Len(notes) < MaxNotes /\ GuiAddNoteFor(n)
    \/ Return

SpecGui == Init /\ [][NextGui]_vars

(***************************************************************************)
(* SpecFault: add_note, log_interaction and add_reminder on a store whose   *)
(* statements can raise sqlite3.Error (the database is locked by another   *)
(* process, the disk is full).  The menu catches no exception: the error   *)
(* ends the process, and the database file stays as it was left.           *)
(***************************************************************************)
\* The statement that raises: none, the INSERT of the row, or the UPDATE of
\* _update_last_contacted.
FaultPoints == { "none", "insert", "update" }

\* "conn = connect_to_db() ... conn.close()": the connections left open when
\* a statement between the two has raised or not.
plain_connection(raised) == IF raised THEN 1 ELSE 0

\* "with get_db_connection() as conn": closed by the finally clause.
scoped_connection(raised) == 0

\* The INSERT of the command op, committed.
InsertRow(op, contact_id) ==
    IF op = "reminder"
    THEN /\ reminders' = Append(reminders, [contact_id |-> contact_id, message |-> Msg,
                                            reminder_date |-> Ymd(2024, 5, 1)])
         /\ notes' = notes
    ELSE /\ notes' = Append(notes,
                        [contact_id |-> contact_id,
                         note_text |-> IF op = "note" THEN << Msg >>
                                       ELSE << "Logged interaction: ", Msg >>])
         /\ reminders' = reminders

\* add_note, log_interaction or add_reminder of the menu from the point where
\* choose_contact has returned contact_id, with the statement that raises.
Record(op, contact_id, fault) ==
    /\ pc = "menu"
    /\ contact_id \in DOMAIN contacts
    /\ CASE fault = "none" ->
              /\ InsertRow(op, contact_id)
              /\ contacts' = update_last_contacted(contacts, contact_id, now)
              /\ pc' = "done"
              /\ res' = [NoRes EXCEPT !.op = op, !.outcome = "Found", !.id = contact_id,
                                      !.conns = plain_connection(FALSE)
                                                  + scoped_connection(FALSE)]
         [] fault = "insert" ->
              /\ UNCHANGED << contacts, notes, reminders, relationships >>
              /\ pc' = "crashed"
              /\ res' = [NoRes EXCEPT !.op = op, !.outcome = "Error", !.id = contact_id,
                                      !.conns = plain_connection(TRUE)]
         [] fault = "update" ->
              /\ InsertRow(op, contact_id)
              /\ contacts' = contacts
              /\ pc' = "crashed"
              /\ res' = [NoRes EXCEPT !.op = op, !.outcome = "Error", !.id = contact_id,
                                      !.conns = plain_connection(FALSE)
                                                  + scoped_connection(TRUE)]
    /\ UNCHANGED << seq, tags, contact_tags, occasions, gifts, relationships, now, cmd, shown >>

\* The program is started again on the database file.
Restart ==
    /\ pc = "crashed"
    /\ pc' = "menu"
    /\ res' = NoRes
    /\ UNCHANGED << store, now, cmd, shown >>

NextFault ==
    \/ \E n \in NamePool : seq < MaxContacts /\ AddContact(n[1], n[2])
    \/ \E op \in { "note", "log", "reminder" }, i \in 1..MaxContacts, f \in FaultPoints :
          Len(notes) + Len(reminders) < MaxNotes /\ Record(op, i, f)
    \/ Return
    \/ Restart
    \/ Tick

SpecFault == Init /\ [][NextFault]_vars

(***************************************************************************)
(* SpecSchema: create_tables run on a database file that holds any of the  *)
(* tables already.                                                         *)
(***************************************************************************)
\* The tables of the CREATE TABLE IF NOT EXISTS statements, in their order.
TableNames ==
    << "contacts", "phones", "pets", "partners", "notes", "reminders", "tags",
       "contact_tags", "special_occasions", "gifts" >>

\* The statements inside "with get_db_connection() as conn": at the end of
\* the block the connection is closed.
StatementsInWith == 1

\* The statements from the k-th on, run on the tables `existing`: a statement
\* issued after the with block is issued on a closed connection and raises
\* sqlite3.ProgrammingError, which ends create_tables.
RECURSIVE RunStatements(_, _)
RunStatements(existing, k) ==
    IF k > Len(TableNames) THEN [tables |-> existing, raised |-> FALSE]
    ELSE IF k > StatementsInWith THEN [tables |-> existing, raised |-> TRUE]
    ELSE RunStatements(existing \cup { TableNames[k] }, k + 1)

create_tables(existing) == RunStatements(existing, 1)

\* main() calls create_tables() on the database file, which holds the tables
\* `existing`; no statement of create_tables touches a row.
CreateTables(existing) ==
    /\ pc = "menu"
    /\ LET r == create_tables(existing)
       IN  /\ pc' = IF r.raised THEN "crashed" ELSE "done"
           /\ res' = [NoRes EXCEPT !.op = "create_tables",
                                   !.outcome = IF r.raised THEN "Error" ELSE "Done",
                                   !.schema = existing,
                                   !.tables = r.tables]
    /\ UNCHANGED << store, now, cmd, shown >>

NextSchema ==
    \/ \E existing \in SUBSET { TableNames[k] : k \in 1..Len(TableNames) } :
          CreateTables(existing)
    \/ Restart

SpecSchema == Init /\ [][NextSchema]_vars

(***************************************************************************)
(* SpecAdd: Add Contact of the menu, with the values typed at its prompts. *)
(***************************************************************************)
\* input(...).strip() or None, of a text typed without surrounding blanks.
OrNone(text) == IF text = <<>> THEN Null ELSE text

\* The row add_contact inserts: each parameter goes to the column of its name.
add_contact(first_name, last_name, chosen_name, pronouns, email, birthday, date_met, how_met, favorite_color) ==
    [first_name |-> first_name, last_name |-> last_name, chosen_name |-> chosen_name,
     pronouns |-> pronouns, email |-> email, birthday |-> birthday,
     date_met |-> date_met, how_met |-> how_met, favorite_color |-> favorite_color,
     last_contacted_at |-> Never, marks |-> 0]

\* The values typed at the five prompts after the names: nothing, or a text
\* the prompt accepts.
TypedValues ==
    [email : { <<>>, << "a@b.co" >> }, birthday : { <<>>, << "1990-01-02" >> },
     date_met : { <<>>, << "2020-03-04" >> }, how_met : { <<>>, << "school" >> },
     favorite_color : { <<>>, << "red" >> }]

\* _handle_contact_management, choice '1', up to the questions about phones:
\* add_contact is called with seven positional arguments, which Python binds
\* to its first seven parameters; the last two keep their default None.
MenuAddContact(first_name, last_name, typed) ==
    /\ pc = "menu"
    /\ first_name # <<>>
    /\ LET contact_id == NewId(contacts, seq)
           row == add_contact(first_name, OrNone(last_name), OrNone(typed.email),
                              OrNone(typed.birthday), OrNone(typed.date_met),
                              OrNone(typed.how_met), OrNone(typed.favorite_color),
                              Null, Null)
       IN  /\ seq' = IF contact_id > seq THEN contact_id ELSE seq
           /\ contacts' = [i \in DOMAIN contacts \cup { contact_id } |->
                             IF i = contact_id THEN row ELSE contacts[i]]
           /\ res' = [NoRes EXCEPT !.op = "add", !.outcome = "Done", !.id = contact_id]
    /\ pc' = "done"
    /\ cmd' = [op |-> "add", name |-> first_name, date |-> NoDate, tag |-> "",
               typed |-> typed]
    /\ UNCHANGED << notes, reminders, tags, contact_tags, occasions, gifts, relationships, now, shown >>

NextAdd ==
    \/ \E n \in { <<Jane, Doe>>, <<Sam, <<>> >> }, typed \in TypedValues :
          seq < MaxContacts /\ MenuAddContact(n[1], n[2], typed)
    \/ Return

SpecAdd == Init /\ [][NextAdd]_vars

(***************************************************************************)
(* SpecNames: the names a menu command can pass on, the empty ones too.    *)
(***************************************************************************)
\* The texts typed at a "contact's full name" prompt: the menu passes them on
\* as typed.
TypedNames == { Jane, JaneDoe, Sam, <<>>, << " " >>, << " ", " " >> }

NamesCommands ==
    { Command(op, n, NoDate, "") : op \in { "view", "delete" }, n \in TypedNames }

\* A command is chosen and a name typed for which find_contacts_by_name
\* raises: nothing from there up to the menu loop catches the error.
StartRaises(c) ==
    /\ pc = "menu"
    /\ FindRaises(c.name)
    /\ pc' = "crashed"
    /\ cmd' = c
    /\ res' = [NoRes EXCEPT !.op = c.op, !.outcome = "Error"]
    /\ UNCHANGED << store, now, shown >>

\* The program is started again after an unhandled error.
Relaunch ==
    /\ pc = "crashed"
    /\ pc' = "menu"
    /\ res' = NoRes
    /\ cmd' = NoCmd
    /\ UNCHANGED << store, now, shown >>

NextNames ==
    \/ \E n \in { <<Jane, Doe>>, <<Jane, Smith>> } : seq < MaxContacts /\ AddContact(n[1], n[2])
    \/ \E c \in NamesCommands : Start(c)
    \/ \E c \in NamesCommands : StartRaises(c)
    \/ \E choice \in { <<"q">>, <<"1">>, <<"2">>, <<"5">> } : Input(choice)
    \/ Return
    \/ Relaunch

SpecNames == Init /\ [][NextNames]_vars

(***************************************************************************)
(* SpecRound: a contact's displayed full name, given back to the resolver. *)
(***************************************************************************)
JoAnn == << "J", "o", " ", "A", "n", "n" >>

\* (first_name, last_name) of the contacts added in SpecRound.
RoundPool == { <<Jane, Doe>>, <<Sam, Null>>, <<JoAnn, Doe>>, <<Sam, DeLee>> }

\* get_all_contact_names, for one row:
\* f"{contact['first_name']} {contact['last_name'] or ''}".strip()
full_name_of(row) ==
    PyStrip(row.first_name \o << " " >>
                \o (IF row.last_name = Null THEN <<>> ELSE row.last_name))

\* get_contact_name of the simulator: f"{contact['first_name']} {contact['last_name']}",
\* where a NULL last name is formatted as the text None.
get_contact_name(row) ==
    row.first_name \o << " " >>
        \o (IF row.last_name = Null THEN << "N", "o", "n", "e" >> ELSE row.last_name)

\* The name displayed for contact contact_id is passed to
\* find_contacts_by_name; the rows fetched are in `shown`.
FindDisplayed(contact_id, full_name) ==
    /\ pc = "menu"
    /\ contact_id \in DOMAIN contacts
    /\ ~FindRaises(full_name)
    /\ pc' = "done"
    /\ cmd' = Command("find", full_name, NoDate, "")
    /\ shown' = find_contacts_by_name(full_name)
    /\ res' = [NoRes EXCEPT !.op = "round", !.id = contact_id]
    /\ UNCHANGED << store, now >>

NextRound ==
    \/ \E n \in RoundPool : seq < MaxCandidates /\ AddContact(n[1], n[2])
    \/ \E i \in 1..MaxCandidates :
          i \in DOMAIN contacts /\ FindDisplayed(i, full_name_of(contacts[i]))
    \/ \E i \in 1..MaxCandidates :
          i \in DOMAIN contacts /\ FindDisplayed(i, get_contact_name(contacts[i]))
    \/ Return

SpecRound == Init /\ [][NextRound]_vars

(***************************************************************************)
(* SpecRelate: relationships between two contacts selected in the window.  *)
(***************************************************************************)
RelationTypes == { "friend", "family" }

\* contacts.add_relationship: the INSERT adds a row; the table the rows go to
\* has the three columns the statement names, and no statement of
\* create_tables declares a constraint on them.
add_relationship(contact1_id, contact2_id, relationship_type) ==
    IF contact1_id = contact2_id
    THEN relationships
    ELSE LET low  == IF contact1_id > contact2_id THEN contact2_id ELSE contact1_id
             high == IF contact1_id > contact2_id THEN contact1_id ELSE contact2_id
         IN  Append(relationships,
                    [contact1_id |-> low, contact2_id |-> high,
                     relationship_type |-> relationship_type])

\* contacts.remove_relationship:
\* DELETE FROM relationships WHERE contact1_id = ? AND contact2_id = ?
remove_relationship(contact1_id, contact2_id) ==
    LET low  == IF contact1_id > contact2_id THEN contact2_id ELSE contact1_id
        high == IF contact1_id > contact2_id THEN contact1_id ELSE contact2_id
    IN  SelectSeq(relationships,
                  LAMBDA r : ~(r.contact1_id = low /\ r.contact2_id = high))

RelateCmd(op, contact1_id, contact2_id, relationship_type) ==
    [op |-> op, name |-> <<>>, date |-> NoDate, tag |-> relationship_type,
     contact1_id |-> contact1_id, contact2_id |-> contact2_id]

\* "Add Relationship" of the window, both contacts selected and a type typed.
GuiAddRelationship(contact1_id, contact2_id, rel_type) ==
    /\ pc = "menu"
    /\ { contact1_id, contact2_id } \subseteq DOMAIN contacts
    /\ relationships' = add_relationship(contact1_id, contact2_id, rel_type)
    /\ pc' = "done"
    /\ cmd' = RelateCmd("relate", contact1_id, contact2_id, rel_type)
    /\ res' = [NoRes EXCEPT !.op = "relate", !.outcome = "Done"]
    /\ UNCHANGED << contacts, seq, notes, reminders, tags, contact_tags, occasions,
                    gifts, now, shown >>

\* "Remove Relationship" of the window, both contacts selected.
GuiRemoveRelationship(contact1_id, contact2_id) ==
    /\ pc = "menu"
    /\ { contact1_id, contact2_id } \subseteq DOMAIN contacts
    /\ relationships' = remove_relationship(contact1_id, contact2_id)
    /\ pc' = "done"
    /\ cmd' = RelateCmd("unrelate", contact1_id, contact2_id, "")
    /\ res' = [NoRes EXCEPT !.op = "unrelate", !.outcome = "Done"]
    /\ UNCHANGED << contacts, seq, notes, reminders, tags, contact_tags, occasions,
                    gifts, now, shown >>

NextRelate ==
    \/ \E n \in NamePool : seq < MaxCandidates /\ AddContact(n[1], n[2])
    \/ \E a \in 1..MaxCandidates, b \in 1..MaxCandidates, t \in RelationTypes :
          Len(relationships) < MaxRelations /\ GuiAddRelationship(a, b, t)
    \/ \E a \in 1..MaxCandidates, b \in 1..MaxCandidates : GuiRemoveRelationship(a, b)
    \/ Return

SpecRelate == Init /\ [][NextRelate]_vars

(***************************************************************************)
(* SpecTags: tagging and untagging, from the menu and from the window.     *)
(***************************************************************************)
DEFAULT_TAGS == << "family", "friend", "work", "client", "acquaintance", "vip" >>

\* The tags typed: one of the default tags and one that is not.
TagNames == { "vip", "pal" }

\* INSERT OR IGNORE INTO tags (name) VALUES (?), for each of names in order:
\* name is UNIQUE, a name already there is ignored.
RECURSIVE InsertOrIgnore(_, _)
InsertOrIgnore(table, names) ==
    IF names = <<>> THEN table
    ELSE InsertOrIgnore(IF \E i \in 1..Len(table) : table[i] = names[1]
                        THEN table ELSE Append(table, names[1]),
                        Tail(names))

\* Faulty variant of add_tag_to_contact_by_id: the tag row is inserted without
\* the SELECT that looks for it.
InsertTagAnyway(contact_id, tag_name) ==
    /\ tags' = Append(tags, tag_name)
    /\ contact_tags' = contact_tags \cup { <<contact_id, Len(tags) + 1>> }
    /\ UNCHANGED << contacts, seq, notes, reminders, occasions, gifts, relationships >>

\* _add_tag_to_contact_by_id of the window: on IntegrityError (the pair is
\* the primary key of contact_tags) nothing is committed.
add_tag_to_contact_by_id(contact_id, tag_name) ==
    LET known  == TagId(tag_name) # 0
        tag_id == IF known THEN TagId(tag_name) ELSE Len(tags) + 1
    IN  IF <<contact_id, tag_id>> \in contact_tags
        THEN UNCHANGED store
        ELSE /\ tags' = IF known THEN tags ELSE Append(tags, tag_name)
             /\ contact_tags' = contact_tags \cup { <<contact_id, tag_id>> }
             /\ UNCHANGED << contacts, seq, notes, reminders, occasions, gifts,
                             relationships >>

\* _remove_tag_from_contact_by_id of the window.
remove_tag_from_contact_by_id(contact_id, tag_name) ==
    IF TagId(tag_name) = 0 THEN UNCHANGED store
    ELSE /\ contact_tags' = contact_tags \ { <<contact_id, TagId(tag_name)>> }
         /\ UNCHANGED << contacts, seq, notes, reminders, tags, occasions, gifts,
                         relationships >>

\* A tag is added to the contact shown in the window.
GuiAddTag(contact_id, tag_name) ==
    /\ pc = "menu"
    /\ contact_id \in DOMAIN contacts
    /\ add_tag_to_contact_by_id(contact_id, tag_name)
    /\ pc' = "done"
    /\ res' = [GuiRes("gui_tag", contact_id) EXCEPT
                  !.tag = tag_name, !.had = HasTag(contact_id, tag_name)]
    /\ UNCHANGED << now, cmd, shown >>

\* A tag is removed from the contact shown in the window.
GuiRemoveTag(contact_id, tag_name) ==
    /\ pc = "menu"
    /\ contact_id \in DOMAIN contacts
    /\ remove_tag_from_contact_by_id(contact_id, tag_name)
    /\ pc' = "done"
    /\ res' = [GuiRes("gui_untag", contact_id) EXCEPT
                  !.tag = tag_name, !.had = HasTag(contact_id, tag_name)]
    /\ UNCHANGED << now, cmd, shown >>

\* initialize_default_tags
InitializeDefaultTags ==
    /\ pc = "menu"
    /\ tags' = InsertOrIgnore(tags, DEFAULT_TAGS)
    /\ pc' = "done"
    /\ res' = [NoRes EXCEPT !.op = "default_tags", !.outcome = "Done"]
    /\ UNCHANGED << contacts, seq, notes, reminders, contact_tags, occasions, gifts,
                    relationships, now, cmd, shown >>

TagPool == { <<Jane, Doe>>, <<Jane, Smith>> }

TagCommands ==
    { Command(op, n, NoDate, t) : op \in TagOps, n \in { Jane, JaneDoe, Sam }, t \in TagNames }

NextTags ==
    \/ \E n \in TagPool : seq < MaxTagged /\ AddContact(n[1], n[2])
    \/ \E c \in TagCommands : Start(c)
    \/ \E choice \in { <<"q">>, <<"1">>, <<"2">>, <<"5">> } : Input(choice)
    \/ \E i \in 1..MaxTagged, t \in TagNames : GuiAddTag(i, t)
    \/ \E i \in 1..MaxTagged, t \in TagNames : GuiRemoveTag(i, t)
    \/ InitializeDefaultTags
    \/ Return

SpecTags == Init /\ [][NextTags]_vars

(***************************************************************************)
(* Properties                                                              *)
(***************************************************************************)
\* C1 (SpecFind): find_contacts_by_name returns exactly the contacts the matching
\* policy names: for a name of one token, those whose given name or family name
\* equals the token; for a name of two or more tokens, those whose given name
\* equals the first token and whose family name equals the other tokens joined
\* by one space; equality is of whole fields and ignores the case of letters.
C1_FindFollowsPolicy ==
    (pc = "done" /\ res.op = "find") =>
        LET tokens == PySplit(cmd.name)
            Same(field, text) == field # Null /\ PyLower(field) = PyLower(text)
            Matches(row) ==
                IF Len(tokens) = 1
                THEN Same(row.first_name, tokens[1]) \/ Same(row.last_name, tokens[1])
                ELSE Same(row.first_name, tokens[1])
                        /\ Same(row.last_name, PyJoin(Tail(tokens)))
        IN  /\ { shown[k] : k \in DOMAIN shown }
                  = { id \in DOMAIN contacts : Matches(contacts[id]) }
            /\ \A a, b \in DOMAIN shown : a # b => shown[a] # shown[b]

\* C2 (SpecResolve): when the name matches no contact (find_contacts_by_name
\* returns no row), choose_contact yields no contact at once: the prompt is
\* never entered and no input is read.
C2_NoMatchNotFound ==
    [][\A c \in ResolveCommands :
          (Start(c) /\ find_contacts_by_name(c.name) = <<>>) =>
              /\ pc' = "done"
              /\ res'.outcome = "NotFound"
              /\ res'.id = NoId
              /\ res'.reads = 0
              /\ shown' = <<>>]_vars

\* A name that matches none of the contacts there are was resolved.
C2_Witness ==
    pc = "done" /\ res.outcome = "NotFound" /\ DOMAIN contacts # {} /\ res.reads = 0

\* C3 (SpecResolve): when the name matches exactly one contact
\* (find_contacts_by_name returns one row), choose_contact returns that
\* contact's id directly: no candidates are listed, no input is read.
C3_OneMatchDirect ==
    [][\A c \in ResolveCommands :
          (Start(c) /\ Len(find_contacts_by_name(c.name)) = 1) =>
              /\ pc' = "done"
              /\ res'.outcome = "Found"
              /\ res'.id = find_contacts_by_name(c.name)[1]
              /\ res'.reads = 0
              /\ res'.listed = <<>>
              /\ shown' = <<>>]_vars

\* One contact of several was found by its name, without a prompt.
C3_Witness ==
    /\ pc = "done"
    /\ res.outcome = "Found"
    /\ res.id \in DOMAIN contacts
    /\ Cardinality(DOMAIN contacts) >= 2
    /\ res.reads = 0

\* C4 (SpecResolve): at the prompt, the number k of a listed candidate (counting
\* from 1) returns the k-th candidate listed, and q returns no contact; of the
\* candidates A, B, C the input 2 returns B.
C4_IndexSelects ==
    [][\A choice \in ChoiceInputs :
          (pc = "prompt" /\ Input(choice)) =>
              LET numeral == << <<"1">>, <<"2">>, <<"3">>, <<"4">>, <<"5">> >>
              IN  /\ \A k \in 1..Len(shown) :
                        (k <= 5 /\ choice = numeral[k]) =>
                            /\ pc' = "done"
                            /\ res'.outcome = "Chosen"
                            /\ res'.id = shown[k]
                  /\ choice = <<"q">> =>
                        /\ pc' = "done"
                        /\ res'.outcome = "Cancelled"
                        /\ res'.id = NoId]_vars

\* Of three candidates the second was chosen.
C4_Witness ==
    /\ pc = "done"
    /\ res.outcome = "Chosen"
    /\ Len(res.listed) = 3
    /\ res.id = res.listed[2]
    /\ res.id # res.listed[1]

\* C5 (SpecResolve): an input that is neither the number of a listed candidate
\* nor q (a text that is no number, 0, a negative number, a number above the
\* count) only brings the prompt again: nothing else changes, however often it
\* happens; the prompt is left only by a listed number or by q.
C5_InvalidReprompts ==
    [][\A choice \in ChoiceInputs :
          (pc = "prompt" /\ Input(choice)) =>
              LET numeral == << <<"1">>, <<"2">>, <<"3">>, <<"4">>, <<"5">> >>
                  Listed == \E k \in 1..Len(shown) : k <= 5 /\ PyStrip(choice) = numeral[k]
                  Quit   == choice \in { <<"q">>, <<"Q">> }
              IN  IF Listed \/ Quit
                  THEN pc' # "prompt"
                  ELSE /\ pc' = "prompt"
                       /\ shown' = shown
                       /\ cmd' = cmd
                       /\ store' = store
                       /\ res'.outcome = "Prompt"
                       /\ res'.id = NoId
                       /\ res'.listed = res.listed]_vars

\* The prompt is up again after MaxReads inputs.
C5_Witness == pc = "prompt" /\ res.reads = MaxReads /\ Len(shown) >= 2

\* C6 (SpecResolve), as the specification states it: the candidates are listed
\* in the order of their family names, whatever the order in which the contacts
\* were added: Doe before Smith.
C6_ListedInNameOrder ==
    pc = "prompt" =>
        \A a, b \in DOMAIN shown :
            a < b => ~(contacts[shown[a]].last_name = Smith
                          /\ contacts[shown[b]].last_name = Doe)

\* C6 (SpecResolve), as the code has it: the candidates are listed, numbered from
\* 1, in the order of their ids, which is the order in which the contacts were
\* added.
C6_ListedInIdOrder ==
    pc = "prompt" =>
        /\ res.listed = shown
        /\ Len(shown) >= 2
        /\ \A a, b \in DOMAIN shown : a < b => shown[a] < shown[b]
        /\ \A k \in DOMAIN shown : shown[k] \in DOMAIN contacts

\* Smith, added first, is listed before Doe.
C6_Witness ==
    /\ pc = "prompt"
    /\ Len(shown) = 2
    /\ contacts[shown[1]].last_name = Smith
    /\ contacts[shown[2]].last_name = Doe

\* C7 (SpecResolve): of two contacts with the same given name and the same
\* family name, and no third of that name, the name brings the prompt with
\* exactly these two as candidates (in the order of their ids, the same each
\* time).
C7_SameNameBothListed ==
    [][\A c \in ResolveCommands : \A i, j \in DOMAIN contacts :
          LET FullName(row) ==
                  IF row.last_name = Null THEN row.first_name
                  ELSE row.first_name \o << " " >> \o row.last_name
              SameName(a, b) ==
                  /\ contacts[a].first_name = contacts[b].first_name
                  /\ contacts[a].last_name = contacts[b].last_name
          IN  ( /\ Start(c)
                /\ i < j
                /\ SameName(i, j)
                /\ \A k \in DOMAIN contacts : SameName(i, k) => k \in { i, j }
                /\ c.name = FullName(contacts[i]) )
              => (pc' = "prompt" /\ shown' = << i, j >>)]_vars

\* C8 (SpecResolve): resolving a name writes nothing: the store is the same
\* after the listing of the candidates, after each input at the prompt, and
\* after a whole view of a contact, however the resolution ends.
C8_ResolutionWritesNothing ==
    [][(/\ pc \in { "menu", "prompt" }
        /\ pc' \in { "prompt", "done" }
        /\ (pc' = "prompt" \/ res'.op = "view"))
          => store' = store]_vars

\* A contact was viewed after a prompt that was answered twice.
C8_Witness ==
    /\ pc = "done"
    /\ res.op = "view"
    /\ res.outcome = "Chosen"
    /\ res.reads >= 2
    /\ res.id \in DOMAIN contacts

\* C9 (Spec): a command whose name resolves to no contact, or whose prompt is
\* cancelled, writes nothing: no row of any table is created, changed or
\* deleted, and last_contacted_at is unchanged.
C9_AbortWritesNothing ==
    [][(/\ pc \in { "menu", "prompt" }
        /\ pc' = "done"
        /\ res'.outcome \in { "NotFound", "Cancelled" })
          => (store' = store /\ res'.id = NoId)]_vars

\* The removal of a tag that a contact has was cancelled at the prompt.
C9_Witness ==
    /\ pc = "done"
    /\ res.op = "untag"
    /\ res.outcome = "Cancelled"
    /\ contact_tags # {}
    /\ Cardinality(DOMAIN contacts) >= 2

\* C10 (SpecClock), as the specification states it: last_contacted_at, once
\* set, is never replaced by null or by an earlier value.
C10_NeverEarlier ==
    [][\A i \in DOMAIN contacts \cap DOMAIN contacts' :
          contacts[i].last_contacted_at # Never =>
              /\ contacts'[i].last_contacted_at # Never
              /\ contacts'[i].last_contacted_at >= contacts[i].last_contacted_at]_vars

\* C10 (SpecClock), as the code has it: last_contacted_at, once set, is never
\* replaced by null; what changes it sets it to the reading of the clock at that
\* moment, so it does not decrease unless the clock reads less than it; after
\* add_note it is that reading.
C10_SetToClockReading ==
    [][\A i \in DOMAIN contacts \cap DOMAIN contacts' :
          LET old == contacts[i].last_contacted_at
              new == contacts'[i].last_contacted_at
          IN  /\ old # Never => new # Never
              /\ new # old => new = now
              /\ now >= old => new >= old
              /\ ( /\ pc \in { "menu", "prompt" }
                   /\ pc' = "done"
                   /\ res'.op = "note"
                   /\ res'.id = i ) => (new = now /\ new # Never)]_vars

\* A second note was added to a contact, at a later reading of the clock.
C10_Witness ==
    /\ pc = "done"
    /\ res.op = "note"
    /\ res.id \in DOMAIN contacts
    /\ Len(notes) = 2
    /\ notes[1].contact_id = res.id
    /\ notes[2].contact_id = res.id
    /\ now > 0
    /\ contacts[res.id].last_contacted_at = now

C12_MarkedOncePerAction ==
    [][/\ \A i \in DOMAIN contacts :
             LET recorded ==
                     \/ /\ Len(notes') = Len(notes) + 1
                        /\ notes'[Len(notes')].contact_id = i
                     \/ /\ Len(reminders') = Len(reminders) + 1
                        /\ reminders'[Len(reminders')].contact_id = i
             IN  /\ recorded =>
                       (i \in DOMAIN contacts' /\ contacts'[i].marks = contacts[i].marks + 1)
                 /\ (~recorded /\ i \in DOMAIN contacts') =>
                       contacts'[i].marks = contacts[i].marks
       /\ ( /\ pc # "done"
            /\ pc' = "done"
            /\ res'.op \in { "note", "log", "gui_note", "gui_log" }
            /\ res'.id # NoId ) =>
               /\ res'.id \in DOMAIN contacts
               /\ contacts'[res'.id].marks = contacts[res'.id].marks + 1
      ]_vars

\* An interaction logged in the GUI for a contact never marked before.
C12_Witness ==
    /\ pc = "done"
    /\ res.op = "gui_log"
    /\ Len(notes) = 1
    /\ notes[1].contact_id = res.id
    /\ contacts[res.id].marks = 1

\* C13 (SpecTrack): the commands that only read (list_contacts, view_contact,
\* the advanced search, suggest, the dashboard, list_reminders) and the commands
\* tag and untag never run _update_last_contacted: every step of such a command
\* leaves last_contacted_at of every contact as it was.
C13_ReadsAndTagsDoNotMark ==
    [][res'.op \in { "view", "tag", "untag", "list_contacts", "search", "suggest",
                     "dashboard", "list_reminders" } =>
          /\ DOMAIN contacts' = DOMAIN contacts
          /\ \A i \in DOMAIN contacts :
                /\ contacts'[i].last_contacted_at = contacts[i].last_contacted_at
                /\ contacts'[i].marks = contacts[i].marks
      ]_vars

\* A contact marked at an earlier reading of the clock has just been tagged.
C13_Witness ==
    /\ pc = "done"
    /\ res.op = "tag"
    /\ res.id # NoId
    /\ \E t \in 1..Len(tags) : <<res.id, t>> \in contact_tags
    /\ contacts[res.id].last_contacted_at # Never
    /\ contacts[res.id].last_contacted_at < now

\* C14 (SpecMark): _update_last_contacted called with an id of no contact of
\* the table completes and changes no row of any table; called with the id of
\* a contact it changes last_contacted_at of that contact and nothing else: no
\* other column of the row, no other row, no other table.
C14_MarkTouchesThatContactOnly ==
    [][(pc = "menu" /\ pc' = "done" /\ res'.op = "mark") =>
          /\ UNCHANGED << seq, notes, reminders, tags, contact_tags, occasions, gifts, relationships >>
          /\ DOMAIN contacts' = DOMAIN contacts
          /\ \A i \in DOMAIN contacts :
                IF i = res'.id
                THEN /\ contacts'[i].first_name = contacts[i].first_name
                     /\ contacts'[i].last_name = contacts[i].last_name
                     /\ contacts'[i].marks = contacts[i].marks + 1
                ELSE contacts'[i] = contacts[i]
      ]_vars

\* The call was made with the id of a deleted contact while another contact
\* is in the table.
C14_Witness ==
    /\ pc = "done"
    /\ res.op = "mark"
    /\ res.id \in 1..seq
    /\ res.id \notin DOMAIN contacts
    /\ contacts # <<>>

\* C15 (SpecMark): _update_last_contacted sets last_contacted_at of the contact
\* to the reading of the clock at the call, whatever the value it held (none,
\* an earlier reading, a later reading): the last write wins, and the value it
\* replaces is kept nowhere, the other columns and tables being as before.
C15_LastWriteWins ==
    [][(pc = "menu" /\ pc' = "done" /\ res'.op = "mark" /\ res'.id \in DOMAIN contacts) =>
          /\ contacts'[res'.id].last_contacted_at = now
          /\ contacts' = [contacts EXCEPT ![res'.id].last_contacted_at = now,
                                          ![res'.id].marks = @ + 1]
          /\ UNCHANGED << seq, notes, reminders, tags, contact_tags, occasions, gifts, relationships >>
      ]_vars

\* A contact marked for the second time, at the clock reading 0, while the
\* other contact bears a later reading: the clock has been set back.
C15_Witness ==
    /\ pc = "done"
    /\ res.op = "mark"
    /\ res.id \in DOMAIN contacts
    /\ contacts[res.id].marks = 2
    /\ contacts[res.id].last_contacted_at = now
    /\ \E j \in DOMAIN contacts : contacts[j].last_contacted_at > now

\* C16 (SpecTrack): suggest_contacts with a threshold of d days, 30 when none is
\* given as on the dashboard, selects exactly the contacts whose
\* last_contacted_at is null or earlier than now - d days: a contact never
\* contacted is always suggested, one contacted within the last d days never.
C16_SuggestsNeverOrOlder ==
    [][/\ \A days \in SuggestDays :
             Suggest(days) =>
                { res'.listed[k] : k \in 1..Len(res'.listed) }
                    = { i \in DOMAIN contacts :
                          \/ contacts[i].last_contacted_at = Never
                          \/ contacts[i].last_contacted_at < now - days }
       /\ Dashboard =>
             { res'.listed[k] : k \in 1..Len(res'.listed) }
                 = { i \in DOMAIN contacts :
                       \/ contacts[i].last_contacted_at = Never
                       \/ contacts[i].last_contacted_at < now - DefaultDays }
      ]_vars

\* C17 (SpecTrack): the suggestions are listed oldest first, and every contact
\* never contacted is listed before every contact that has a timestamp.
C17_OldestFirstNeverContactedAhead ==
    (pc = "done" /\ res.op \in { "suggest", "dashboard" }) =>
        /\ \A k, l \in 1..Len(res.listed) :
              k < l => contacts[res.listed[k]].last_contacted_at
                          <= contacts[res.listed[l]].last_contacted_at
        /\ \A i \in DOMAIN contacts, l \in 1..Len(res.listed) :
              ( /\ contacts[i].last_contacted_at = Never
                /\ contacts[res.listed[l]].last_contacted_at # Never ) =>
                  \E k \in 1..(l - 1) : res.listed[k] = i

\* C18 (SpecDash): the dashboard lists a reminder as overdue exactly when its
\* date is earlier than today, as upcoming exactly when its date is from today
\* to today + 7 days, and in neither list when it is later; no reminder is in
\* both lists; each list is in ascending order of date; the suggestions are
\* printed after both lists.
C18_DashboardPartitionsByDate ==
    (pc = "done" /\ res.op = "dashboard") =>
        LET today    == Ordinal(Today(now))
            date(r)  == Ordinal(reminders[r].reminder_date)
            Rows(q)  == { q[k] : k \in 1..Len(q) }
            Sorted(q) == \A k, l \in 1..Len(q) : k < l => date(q[k]) <= date(q[l])
        IN  /\ \A r \in 1..Len(reminders) :
                  /\ r \in Rows(res.overdue) <=> date(r) < today
                  /\ r \in Rows(res.upcoming) <=>
                        (today <= date(r) /\ date(r) <= today + WeekDays)
            /\ Rows(res.overdue) \cap Rows(res.upcoming) = {}
            /\ Sorted(res.overdue)
            /\ Sorted(res.upcoming)
            /\ res.printed = << "overdue", "upcoming", "suggestions" >>

\* C19 (Spec): every dependent record (here a note, a reminder, a tag
\* association, an occasion, a gift) references a contact of table contacts:
\* deleting a contact deletes every record that references it.
C19_DependentsReferenceContacts ==
    /\ \A k \in 1..Len(notes) : notes[k].contact_id \in DOMAIN contacts
    /\ \A k \in 1..Len(reminders) : reminders[k].contact_id \in DOMAIN contacts
    /\ \A k \in 1..Len(occasions) : occasions[k].contact_id \in DOMAIN contacts
    /\ \A k \in 1..Len(gifts) : gifts[k].contact_id \in DOMAIN contacts
    /\ \A ct \in contact_tags : ct[1] \in DOMAIN contacts

\* C20 (SpecIdentity): a contact is identified by its id, which is unique, stable
\* and given by the store, and not by its name: add_contact with the name of a
\* contact of the table is not refused and gives the new contact an id that
\* differs from every id ever given, those of deleted contacts included; and
\* the edit of a name changes the id of no contact.
C20_IdentityByStableId ==
    [][/\ pc = "menu" =>
             \A i \in DOMAIN contacts :
                ENABLED AddContact(contacts[i].first_name, contacts[i].last_name)
       /\ \A n \in DOMAIN contacts' \ DOMAIN contacts :
             /\ n \notin 1..seq
             /\ DOMAIN contacts' = DOMAIN contacts \cup { n }
             /\ \A i \in DOMAIN contacts : contacts'[i] = contacts[i]
       /\ (pc = "edit" /\ pc' = "edit") =>
             /\ DOMAIN contacts' = DOMAIN contacts
             /\ \A i \in DOMAIN contacts :
                   i # res.id => contacts'[i] = contacts[i]
       /\ DOMAIN contacts' \subseteq 1..seq'
      ]_vars

\* Two contacts of the same name are in the table, the second added after a
\* contact had been deleted: its id is not the id of the deleted one.
C20_Witness ==
    /\ pc = "menu"
    /\ DOMAIN contacts = { 2, 3 }
    /\ contacts[2].first_name = contacts[3].first_name
    /\ contacts[2].last_name = contacts[3].last_name

\* C21 (SpecGui): every command that takes a contact's name, in the menu and in
\* the GUI, gets the id from the one shared resolver: the contact a command
\* acts on after a prompt is one of the contacts find_contacts_by_name returned
\* for the name, and the contact a handler of the GUI acts on without a prompt
\* is the one contact the resolver returns for the name selected, so that no
\* handler acts on one of several contacts of a name the resolver would ask
\* about.
C21_OneSharedResolver ==
    [][/\ (pc = "prompt" /\ pc' = "done" /\ res'.id # NoId) =>
             /\ shown = find_contacts_by_name(cmd.name)
             /\ \E k \in 1..Len(shown) : shown[k] = res'.id
       /\ (pc = "menu" /\ pc' = "done" /\ cmd'.op = "gui_note") =>
             /\ FirstOutcome(find_contacts_by_name(cmd'.name)) = "Found"
             /\ DirectId(find_contacts_by_name(cmd'.name)) = res'.id
      ]_vars

\* C22 (SpecFault): every operation releases the connection it opened on every
\* exit path: when the operation has ended, by its last statement, by an
\* early return or by an error of the store raised by a statement, no
\* connection it opened is open.
C22_ConnectionsReleased ==
    pc \in { "done", "crashed" } => res.conns = 0

\* C30 (SpecFault): in every reachable state a contact whose last_contacted_at
\* is not null has a note or a reminder recorded for it, and a contact that
\* has a note or a reminder has a last_contacted_at that is not null, also
\* after an error of the store has interrupted add_note, log_interaction or
\* add_reminder between the INSERT of the row and the UPDATE of the timestamp.
C30_StampedIffRecorded ==
    \A i \in DOMAIN contacts :
        contacts[i].last_contacted_at # Never
            <=> \/ \E k \in 1..Len(notes) : notes[k].contact_id = i
                \/ \E k \in 1..Len(reminders) : reminders[k].contact_id = i

\* C23 (SpecSchema): create_tables creates the schema if absent: it returns,
\* every statement it issues runs on an open connection, after it each of the
\* ten tables exists, and run on a database that has the ten tables it changes
\* no table.
C23_CreatesSchemaIfAbsent ==
    res.op = "create_tables" =>
        /\ res.outcome = "Done"
        /\ res.tables = res.schema \cup { TableNames[k] : k \in 1..Len(TableNames) }

\* C24 (SpecAdd): Add Contact of the menu stores each value in the field it was
\* typed for: email, birthday, date_met, how_met and favorite_color of the new
\* contact are the values typed at those prompts, null for a prompt left blank,
\* and no value typed is stored in another field.
C24_ValuesInTheirFields ==
    (pc = "done" /\ res.op = "add") =>
        LET row == contacts[res.id]
        IN  /\ row.email = OrNone(cmd.typed.email)
            /\ row.birthday = OrNone(cmd.typed.birthday)
            /\ row.date_met = OrNone(cmd.typed.date_met)
            /\ row.how_met = OrNone(cmd.typed.how_met)
            /\ row.favorite_color = OrNone(cmd.typed.favorite_color)
            /\ row.chosen_name = Null
            /\ row.pronouns = Null

\* C25 (SpecNames): whatever text a menu command passes as the contact's
\* name, the empty and the blank ones included, resolution ends in an
\* identifier, in not-found or in a cancellation, never in an unhandled error.
C25_ResolutionNeverRaises ==
    /\ pc # "crashed"
    /\ res.op \in { "view", "delete" } =>
          res.outcome \in { "Found", "Chosen", "NotFound", "Cancelled", "Prompt" }

\* C26 (SpecRound): resolving the displayed full name of a stored contact
\* (first name, a space, last name; the first name alone when there is no
\* last name) returns candidates that contain that contact, also when the
\* first name contains a space.
C26_DisplayedNameResolves ==
    (pc = "done" /\ res.op = "round" /\ cmd.name = full_name_of(contacts[res.id])) =>
        \E k \in 1..Len(shown) : shown[k] = res.id

\* C27 (SpecRelate): relationships are stored as unordered pairs in normal
\* form: in every row contact1_id < contact2_id (so no contact is related to
\* itself), and no two rows are of the same pair of contacts.
C27_PairsInNormalForm ==
    /\ \A k \in 1..Len(relationships) :
          relationships[k].contact1_id < relationships[k].contact2_id
    /\ \A j, k \in 1..Len(relationships) :
          (/\ relationships[j].contact1_id = relationships[k].contact1_id
           /\ relationships[j].contact2_id = relationships[k].contact2_id) => j = k

\* tags.name is UNIQUE: no two rows of a name.
TagsUnique(table) == \A i, j \in 1..Len(table) : table[i] = table[j] => i = j

\* A row of contact_tags joins the contact and the tag row of that name.
Tagged(table, pairs, contact_id, tag_name) ==
    \E k \in 1..Len(table) : table[k] = tag_name /\ <<contact_id, k>> \in pairs

\* The step in which a tagging command returns.
TagEnds == pc \in { "menu", "prompt" } /\ pc' = "done" /\ res'.op \in { "tag", "gui_tag" }

\* The step in which an untagging command returns.
UntagEnds ==
    pc \in { "menu", "prompt" } /\ pc' = "done" /\ res'.op \in { "untag", "gui_untag" }

\* C28 (SpecTags): tag names are unique and tagging is idempotent.  There is
\* at most one tag row of a name; tagging a contact that already has the tag
\* changes nothing in the store, and otherwise the contact has the tag
\* afterwards; untagging removes the association of that contact with that
\* tag and nothing else, keeps every tag row, and changes nothing when there
\* is no such tag or the contact does not have it.
C28_TaggingIdempotent ==
    [][/\ TagsUnique(tags')
       /\ (TagEnds /\ res'.id # NoId) =>
             /\ Tagged(tags, contact_tags, res'.id, res'.tag) => store' = store
             /\ Tagged(tags', contact_tags', res'.id, res'.tag)
             /\ \A p \in contact_tags' \ contact_tags :
                   p[1] = res'.id /\ tags'[p[2]] = res'.tag
       /\ UntagEnds =>
             /\ tags' = tags
             /\ contact_tags' \subseteq contact_tags
             /\ \A p \in contact_tags \ contact_tags' :
                   p[1] = res'.id /\ tags[p[2]] = res'.tag
             /\ ~Tagged(tags, contact_tags, res'.id, res'.tag) => store' = store
             /\ res'.id # NoId => ~Tagged(tags', contact_tags', res'.id, res'.tag)]_vars

\* A contact that has the tag has been tagged with it once more.
C28_Witness ==
    /\ pc = "done"
    /\ res.op \in { "tag", "gui_tag" }
    /\ res.id # NoId
    /\ res.had
    /\ Tagged(tags, contact_tags, res.id, res.tag)
    /\ Cardinality(contact_tags) >= 2
    /\ Len(tags) >= 2

\* C29 (SpecDash): a reminder whose date is not a valid date written
\* YYYY-MM-DD is not stored, so the reminder_date of every stored reminder is
\* a valid date written with a year of four digits, a month of two and a day
\* of two.
C29_StoredDatesAreYmd ==
    \A k \in 1..Len(reminders) :
        LET ds == reminders[k].reminder_date
        IN  /\ ds.kind = "ymd"
            /\ ds.y \in 1..9999
            /\ ds.m \in 1..12
            /\ ds.d \in 1..DaysInMonth(ds.y, ds.m)

====
